---- MODULE Spec2Model ----
(***************************************************************************)
(* A model of utils/image_utils.py: the two figure routines                *)
(* generate_heatmap_fig and generate_final_imgs, called repeatedly by one  *)
(* single-threaded caller.  A call runs as a sequence of steps: the        *)
(* preparation loop (one step per panel), the creation of the composite    *)
(* canvas, the render loop (one step per panel) and the return.            *)
(*                                                                         *)
(* Encodings.  A Python value that may be None is a set: None is {} and a  *)
(* value x is {x}.  np.inf is the number PosInf, larger than every pixel.  *)
(* Width ratios are kept in hundredths (1.25 is 125).  A panel is the      *)
(* tensor as the code sees it: its rank after squeeze, its flattened       *)
(* pixels, and whether the heatmap renderer raises on it.                  *)
(***************************************************************************)
EXTENDS Integers, Sequences, FiniteSets

VARIABLES
    pc,         \* "idle" | "prepare" | "layout" | "render" | "finish"
    args,       \* the arguments of the current (or last) call
    idx,        \* loop index of the running loop (1-based)
    ratios,     \* local list ratios
    imgs,       \* local list imgs: the panels converted so far
    g_vmax,     \* local g_vmax
    calc,       \* local calculate_minmax
    defaultMM,  \* the default-argument list object minmax=[] of each function
    callerMM,   \* the list object the caller passed as minmax, <<>> if none
    scales,     \* per panel processed by the render loop: what went to the renderer
    rendered,   \* indices of the panels drawn into the composite by this call
    openFigs,   \* pyplot's registry of open figures (numbers)
    dirs,       \* directories that exist below ../datasets/final_imgs
    fx,         \* rendering side effects of the current call
    result,     \* "none" | "running" | "returned" | "raised"
    calls,      \* number of calls made so far
    prev        \* the outcome of the previous call, kept when a call is repeated

vars == <<pc, args, idx, ratios, imgs, g_vmax, calc, defaultMM, callerMM, scales,
          rendered, openFigs, dirs, fx, result, calls, prev>>

\* ---------------------------------------------------------------- bounds
MaxPanels == 2
MaxVal == 1
MaxCalls == 2

\* np.inf (vmin = np.inf, vmax = -np.inf)
PosInf == 1000
NegInf == -PosInf

\* ---------------------------------------------------------------- values
None == {}
Some(x) == {x}
Val(o) == CHOOSE x \in o : TRUE

\* pixel values: negative, zero, positive
Pixels == {-MaxVal, 0, MaxVal}
Funcs == {"heatmap", "final"}

Range(s) == {s[i] : i \in 1 .. Len(s)}

\* np.min / np.max of a non-empty array
ArrMin(s) == CHOOSE x \in Range(s) : \A y \in Range(s) : x <= y
ArrMax(s) == CHOOSE x \in Range(s) : \A y \in Range(s) : x >= y

\* Python's max(a, b)
PyMax(a, b) == IF b > a THEN b ELSE a

\* np.clip(v, 0, None)
ClipNonNeg(v) == IF v < 0 THEN 0 ELSE v

\* min(len(a), len(b), len(c)): the number of tuples zip yields
ZipLen(a, b, c) ==
    LET m == IF Len(a) <= Len(b) THEN Len(a) ELSE Len(b)
    IN  IF m <= Len(c) THEN m ELSE Len(c)

\* ---------------------------------------------------------------- panels
ScalarPanel(pix, bad) == [ndim |-> 2, pix |-> pix, degenerate |-> bad]
ColorPanel == [ndim |-> 3, pix |-> <<0, 0, 0, 0>>, degenerate |-> FALSE]
Rank4Panel == [ndim |-> 4, pix |-> <<0, 0, 0, 0>>, degenerate |-> FALSE]

\* 2x2 images with constant rows
Images == {<<a, a, b, b>> : a \in Pixels, b \in Pixels}

SeqsUpTo(S, n) == UNION {[1 .. k -> S] : k \in 1 .. n}

\* the list object the running call knows as minmax
MM == IF args.mm = "default" THEN defaultMM[args.fn] ELSE callerMM

NoFx == [canvas |-> FALSE, madeDir |-> FALSE, saved |-> {}, full |-> FALSE]
NoPrev == [valid |-> FALSE, fn |-> "heatmap", scales |-> <<>>, rendered |-> {},
           entry |-> <<>>]
NoArgs == [fn |-> "heatmap", panels |-> <<>>, centers |-> <<>>, align |-> FALSE,
           colorbars |-> None, savefigs |-> FALSE, figname |-> "", mm |-> "default"]

Init ==
    /\ pc = "idle"
    /\ args = NoArgs
    /\ idx = 1
    /\ ratios = <<>>
    /\ imgs = <<>>
    /\ g_vmax = 0
    /\ calc = FALSE
    /\ defaultMM = [f \in Funcs |-> <<>>]
    /\ callerMM = <<>>
    /\ scales = <<>>
    /\ rendered = {}
    /\ openFigs = {}
    /\ dirs = {}
    /\ fx = NoFx
    /\ result = "none"
    /\ calls = 0
    /\ prev = NoPrev

\* ---------------------------------------------------------------- the code
\* lines 57-58 and 69-71: the (vmin, vmax) one iteration of the first loop computes
PanelRange(p, center) ==
    IF p.ndim = 2 /\ center = None
    THEN <<ArrMin(Append(p.pix, PosInf)), ArrMax(Append(p.pix, NegInf))>>
    ELSE <<PosInf, NegInf>>

\* the slip g_vmax = vmax: the last panel's maximum instead of the running one
GlobalMaxLast(p, center, g) ==
    IF p.ndim = 2 /\ center = None
    THEN PanelRange(p, center)[2]
    ELSE g

\* line 72: g_vmax = max(vmax, g_vmax), for a scalar panel without a center
GlobalMax(p, center, g) ==
    IF p.ndim = 2 /\ center = None
    THEN PyMax(PanelRange(p, center)[2], g)
    ELSE g

\* lines 63-66 and 78: the width ratio of a panel, in hundredths
Ratio(p, colorbars, i) ==
    IF p.ndim = 2
    THEN IF colorbars # None /\ Val(colorbars)[i] = FALSE THEN 100 ELSE 125
    ELSE 100

\* the slip of a first loop that lets rank 4 through to the raster branch
RankOKLoose(p) == p.ndim \in {2, 3, 4}

\* lines 60, 75, 80-81: the ranks the first loop accepts
RankOK(p) == p.ndim \in {2, 3}

\* the slip of testing align_scales before the center
PanelScaleAlignFirst(center, align, g, mm) ==
    IF align
    THEN [vmin |-> Some(0), vmax |-> Some(g), cmap |-> "viridis"]
    ELSE IF center # None
         THEN [vmin |-> None, vmax |-> None, cmap |-> "coolwarm"]
         ELSE [vmin |-> Some(ClipNonNeg(mm[1])), vmax |-> Some(ClipNonNeg(mm[2])),
               cmap |-> "viridis"]

\* the slip of clipping vmin alone
PanelScaleClipMinOnly(center, align, g, mm) ==
    IF center # None
    THEN [vmin |-> None, vmax |-> None, cmap |-> "coolwarm"]
    ELSE IF align
         THEN [vmin |-> Some(0), vmax |-> Some(g), cmap |-> "viridis"]
         ELSE [vmin |-> Some(ClipNonNeg(mm[1])), vmax |-> Some(mm[2]),
               cmap |-> "viridis"]

\* the slip of clipping only the ranges the call computed itself, leaving the ranges
\* of a list passed in unclipped
PanelScaleClipComputedOnly(center, align, g, mm) ==
    IF center # None
    THEN [vmin |-> None, vmax |-> None, cmap |-> "coolwarm"]
    ELSE IF align
         THEN [vmin |-> Some(0), vmax |-> Some(g), cmap |-> "viridis"]
         ELSE IF calc
              THEN [vmin |-> Some(ClipNonNeg(mm[1])), vmax |-> Some(ClipNonNeg(mm[2])),
                    cmap |-> "viridis"]
              ELSE [vmin |-> Some(mm[1]), vmax |-> Some(mm[2]), cmap |-> "viridis"]

\* lines 94-106: the colour scale of a scalar panel
PanelScale(center, align, g, mm) ==
    IF center # None
    THEN [vmin |-> None, vmax |-> None, cmap |-> "coolwarm"]
    ELSE IF align
         THEN [vmin |-> Some(0), vmax |-> Some(g), cmap |-> "viridis"]
         ELSE [vmin |-> Some(ClipNonNeg(mm[1])), vmax |-> Some(ClipNonNeg(mm[2])),
               cmap |-> "viridis"]

\* what the render loop records for a colour panel (imshow takes no scale)
NoScale == [vmin |-> None, vmax |-> None, cmap |-> "rgb"]

\* lines 107-115: generate_heatmap_fig's try block draws the panel
HeatmapDraws(p, colorbars) == ~p.degenerate

\* lines 191-196: generate_final_imgs' try block draws the panel; cbar_enabled is
\* bound only when colorbars is given, reading it unbound raises inside the try
FinalDraws(p, colorbars) == colorbars # None /\ ~p.degenerate

\* lines 202, 215: plt.savefig into the figure's folder
SaveOK(figname) == figname \in dirs

\* plt.subplots with ncols = 1 returns one Axes, not an array: axs[idx] raises
AxsSubscriptable == Len(ratios) > 1

\* ---------------------------------------------------------------- actions
AppendMM(r) ==
    IF args.mm = "default"
    THEN /\ defaultMM' = [defaultMM EXCEPT ![args.fn] = Append(@, r)]
         /\ UNCHANGED callerMM
    ELSE /\ callerMM' = Append(callerMM, r)
         /\ UNCHANGED defaultMM

\* the exception leaves the call: its locals are gone
Raise ==
    /\ pc' = "idle"
    /\ result' = "raised"
    /\ idx' = 1
    /\ ratios' = <<>>
    /\ imgs' = <<>>
    /\ g_vmax' = 0

\* lines 46-55 / 125-135: the call is entered; list is None when minmax is omitted
\* and otherwise holds the value of a list the caller makes for this call
Invoke(fn, panels, centers, align, colorbars, savefigs, figname, list) ==
    /\ pc = "idle"
    /\ calls < MaxCalls
    /\ calls' = calls + 1
    /\ args' = [fn |-> fn, panels |-> panels, centers |-> centers, align |-> align,
                colorbars |-> colorbars, savefigs |-> savefigs, figname |-> figname,
                mm |-> IF list = None THEN "default" ELSE "caller"]
    /\ callerMM' = IF list = None THEN <<>> ELSE Val(list)
    /\ calc' = IF list = None THEN Len(defaultMM[fn]) = 0 ELSE Len(Val(list)) = 0
    /\ g_vmax' = 0
    /\ ratios' = <<>>
    /\ imgs' = <<>>
    /\ idx' = 1
    /\ scales' = <<>>
    /\ rendered' = {}
    /\ fx' = NoFx
    /\ result' = "running"
    /\ pc' = "prepare"
    /\ prev' = NoPrev
    /\ UNCHANGED <<defaultMM, openFigs, dirs>>

\* the caller repeats the last call on the same panels, passing the same list
\* object again (or omitting it again)
Recall ==
    /\ pc = "idle"
    /\ result \in {"returned", "raised"}
    /\ calls < MaxCalls
    /\ calls' = calls + 1
    /\ \E fn \in Funcs :
         /\ args' = [args EXCEPT !.fn = fn,
                                 !.savefigs = IF fn = "final" THEN @ ELSE FALSE,
                                 !.figname = IF fn = "final" THEN @ ELSE ""]
         /\ calc' = IF args.mm = "default" THEN Len(defaultMM[fn]) = 0
                    ELSE Len(callerMM) = 0
    /\ prev' = [valid |-> result = "returned", fn |-> args.fn, scales |-> scales,
                rendered |-> rendered, entry |-> IF calc THEN <<>> ELSE MM]
    /\ g_vmax' = 0
    /\ ratios' = <<>>
    /\ imgs' = <<>>
    /\ idx' = 1
    /\ scales' = <<>>
    /\ rendered' = {}
    /\ fx' = NoFx
    /\ result' = "running"
    /\ pc' = "prepare"
    /\ UNCHANGED <<defaultMM, callerMM, openFigs, dirs>>

\* lines 56-84 / 136-164: one iteration of the first loop
PrepareStep ==
    /\ pc = "prepare"
    /\ LET p == args.panels[idx]
           c == args.centers[idx]
       IN  IF ~RankOK(p)
           THEN /\ Raise
                /\ UNCHANGED <<defaultMM, callerMM>>
           ELSE /\ ratios' = Append(ratios, Ratio(p, args.colorbars, idx))
                /\ g_vmax' = GlobalMax(p, c, g_vmax)
                /\ IF calc THEN AppendMM(PanelRange(p, c))
                           ELSE UNCHANGED <<defaultMM, callerMM>>
                /\ imgs' = Append(imgs, p)
                /\ idx' = IF idx = Len(args.panels) THEN 1 ELSE idx + 1
                /\ pc' = IF idx = Len(args.panels) THEN "layout" ELSE "prepare"
                /\ UNCHANGED result
    /\ UNCHANGED <<args, calc, scales, rendered, openFigs, dirs, fx, calls, prev>>

\* lines 86-87 / 166-171: the composite canvas (figure 1) and the export folder
Layout ==
    /\ pc = "layout"
    /\ openFigs' = openFigs \cup {1}
    /\ LET mk == args.fn = "final" /\ args.figname # ""
       IN  /\ fx' = [fx EXCEPT !.canvas = TRUE, !.madeDir = mk]
           /\ dirs' = IF mk THEN dirs \cup {"", args.figname} ELSE dirs
    /\ pc' = IF ZipLen(imgs, MM, args.centers) >= 1 THEN "render" ELSE "finish"
    /\ UNCHANGED <<args, idx, ratios, imgs, g_vmax, calc, defaultMM, callerMM, scales,
                   rendered, result, calls, prev>>

\* lines 88-118 / 172-217: one iteration of the render loop
RenderStep ==
    /\ pc = "render"
    /\ LET p == imgs[idx]
           c == args.centers[idx]
           last == idx = ZipLen(imgs, MM, args.centers)
           export == args.fn = "final" /\ args.savefigs
           Continue == /\ idx' = IF last THEN 1 ELSE idx + 1
                       /\ pc' = IF last THEN "finish" ELSE "render"
                       /\ UNCHANGED <<ratios, imgs, g_vmax, result>>
       IN  IF ~AxsSubscriptable
           THEN /\ Raise
                /\ UNCHANGED <<scales, rendered, openFigs, fx>>
           ELSE IF p.ndim = 2
           THEN LET s == PanelScale(c, args.align, g_vmax, MM[idx])
                    drawn == IF args.fn = "final" THEN FinalDraws(p, args.colorbars)
                             ELSE HeatmapDraws(p, args.colorbars)
                IN  /\ scales' = Append(scales, s)
                    /\ rendered' = IF drawn THEN rendered \cup {idx} ELSE rendered
                    /\ IF drawn /\ export
                       THEN IF SaveOK(args.figname)
                            THEN /\ fx' = [fx EXCEPT !.saved = @ \cup {idx}]
                                 /\ openFigs' = openFigs \ {2}
                            ELSE /\ openFigs' = openFigs \cup {2}
                                 /\ UNCHANGED fx
                       ELSE UNCHANGED <<openFigs, fx>>
                    /\ Continue
           ELSE /\ scales' = Append(scales, NoScale)
                /\ rendered' = rendered \cup {idx}
                /\ IF export
                   THEN IF SaveOK(args.figname)
                        THEN /\ fx' = [fx EXCEPT !.saved = @ \cup {idx}]
                             /\ openFigs' = openFigs \ {2}
                             /\ Continue
                        ELSE /\ openFigs' = openFigs \cup {2}
                             /\ UNCHANGED fx
                             /\ Raise
                   ELSE /\ UNCHANGED <<openFigs, fx>>
                        /\ Continue
    /\ UNCHANGED <<args, calc, defaultMM, callerMM, dirs, calls, prev>>

\* lines 120-121 / 218-222: tight_layout, the combined file, the return
Return ==
    /\ pc = "finish"
    /\ fx' = [fx EXCEPT !.full = args.fn = "final" /\ args.figname # ""]
    /\ result' = "returned"
    /\ pc' = "idle"
    /\ idx' = 1
    /\ ratios' = <<>>
    /\ imgs' = <<>>
    /\ g_vmax' = 0
    /\ UNCHANGED <<args, calc, defaultMM, callerMM, scales, rendered, openFigs, dirs,
                   calls, prev>>

\* ---------------------------------------------------------------- inputs
AllTrue(n) == [i \in 1 .. n |-> TRUE]
CenterLists(panels) ==
    {cs \in [1 .. Len(panels) -> {None, Some(0)}] :
        \A i \in 1 .. Len(panels) : panels[i].ndim # 2 => cs[i] = None}
NoCenters(panels) == [i \in 1 .. Len(panels) |-> None]

\* the first call of a run varies the data, the centers and align_scales; nothing
\* is exported
ScalePanels == {ScalarPanel(im, FALSE) : im \in Images} \cup {ColorPanel}
Call ==
    /\ calls = 0
    /\ \E fn \in Funcs, panels \in SeqsUpTo(ScalePanels, MaxPanels), align \in BOOLEAN,
       list \in {None, Some(<<>>)} :
         \E centers \in CenterLists(panels) :
             Invoke(fn, panels, centers, align, Some(AllTrue(Len(panels))), FALSE, "", list)

\* the first call of a run varies the ranks, the renderer's failures, the colorbars, the export
\* mode and the length of a caller-supplied range list
ExportPanels ==
    {ScalarPanel(<<0, 0, MaxVal, MaxVal>>, bad) : bad \in BOOLEAN}
        \cup {ColorPanel, Rank4Panel}
ExplicitLists == {[i \in 1 .. k |-> <<0, MaxVal>>] : k \in 0 .. MaxPanels}
Fignames == {"", "fig"}
CallExport ==
    /\ calls = 0
    /\ \E fn \in Funcs, panels \in SeqsUpTo(ExportPanels, MaxPanels),
       list \in {None} \cup {Some(l) : l \in ExplicitLists} :
         \E colorbars \in {None, Some(AllTrue(Len(panels)))},
            savefigs \in (IF fn = "final" THEN BOOLEAN ELSE {FALSE}),
            figname \in (IF fn = "final" THEN Fignames ELSE {""}) :
             Invoke(fn, panels, NoCenters(panels), FALSE, colorbars, savefigs, figname, list)

\* every call of a run is a new one, on uniform images, with minmax omitted or a
\* new empty list
UniformPanels == {ScalarPanel(<<a, a, a, a>>, FALSE) : a \in Pixels} \cup {ColorPanel}
CallAgain ==
    \E fn \in Funcs, panels \in SeqsUpTo(UniformPanels, MaxPanels),
       list \in {None, Some(<<>>)} :
        Invoke(fn, panels, NoCenters(panels), FALSE, Some(AllTrue(Len(panels))), FALSE, "",
               list)

Next == Call \/ Recall \/ PrepareStep \/ Layout \/ RenderStep \/ Return
Spec == Init /\ [][Next]_vars

NextExport == CallExport \/ Recall \/ PrepareStep \/ Layout \/ RenderStep \/ Return
SpecExport == Init /\ [][NextExport]_vars

NextCalls == CallAgain \/ Recall \/ PrepareStep \/ Layout \/ RenderStep \/ Return
SpecCalls == Init /\ [][NextCalls]_vars

\* ---------------------------------------------------------------- properties
\* the panels of the call the render loop has reached so far
Reached == 1 .. Len(scales)
Scalar(i) == args.panels[i].ndim = 2
PlainScalar(i) == Scalar(i) /\ args.centers[i] = None
PlainScalars == {i \in 1 .. Len(args.panels) : PlainScalar(i)}
PixelsOf(i) == Range(args.panels[i].pix)
SetMax(S) == CHOOSE x \in S : \A y \in S : y <= x
SetMin(S) == CHOOSE x \in S : \A y \in S : x <= y
\* the largest data value over the scalar panels without a center
DataMax == SetMax(UNION {PixelsOf(i) : i \in PlainScalars})
NonNeg(v) == IF v < 0 THEN 0 ELSE v
\* the content of the list the call works on, as it was when the call was entered
EntryList == IF calc THEN <<>> ELSE MM

\* C1 as stated: with align_scales, every scalar panel without a center is rendered
\* with vmin = 0 and vmax = the largest data value over all such panels of the call
C1_AlignedToDataMax ==
    \A i \in Reached :
        (args.align /\ PlainScalar(i)) =>
            (scales[i].vmin = Some(0) /\ scales[i].vmax = Some(DataMax))

\* C1 amended: with align_scales, every scalar panel without a center is rendered
\* with vmin = 0 and vmax = the larger of 0 and the largest data value over all such
\* panels of the call
C1_AlignedToDataMaxOrZero ==
    \A i \in Reached :
        (args.align /\ PlainScalar(i)) =>
            (scales[i].vmin = Some(0) /\ scales[i].vmax = Some(NonNeg(DataMax)))

\* a panel was given the shared scale although its own largest value is smaller
C1_Witness ==
    \E i \in Reached :
        /\ args.align /\ PlainScalar(i)
        /\ SetMax(PixelsOf(i)) < DataMax
        /\ DataMax > 0
        /\ scales[i].vmax = Some(DataMax)

\* C2 as stated: without align_scales, a scalar panel without a center whose range
\* the call computed gets vmin <= v <= vmax for every data value v
C2_RangeCoversData ==
    \A i \in Reached :
        (~args.align /\ PlainScalar(i) /\ calc) =>
            \A v \in PixelsOf(i) : Val(scales[i].vmin) <= v /\ v <= Val(scales[i].vmax)

\* C2 amended: such a panel gets vmin <= max(v, 0) <= vmax for every data value v:
\* no value lies above vmax and no non-negative value lies below vmin
C2_RangeCoversClippedData ==
    \A i \in Reached :
        (~args.align /\ PlainScalar(i) /\ calc) =>
            \A v \in PixelsOf(i) :
                Val(scales[i].vmin) <= NonNeg(v) /\ NonNeg(v) <= Val(scales[i].vmax)

\* a computed range was assigned to a panel holding a negative and a positive value
C2_Witness ==
    \E i \in Reached :
        /\ ~args.align /\ PlainScalar(i) /\ calc
        /\ \E v \in PixelsOf(i) : v < 0
        /\ \E v \in PixelsOf(i) : v > 0
        /\ scales[i].vmin = Some(0)

\* C3: a call that omits minmax and does not align scales gives every scalar panel
\* without a center the range of that panel's own data, clipped to non-negative,
\* whatever calls came before
C3_OwnDataWhenOmitted ==
    \A i \in Reached :
        (args.mm = "default" /\ ~args.align /\ PlainScalar(i)) =>
            /\ scales[i].vmin = Some(NonNeg(SetMin(PixelsOf(i))))
            /\ scales[i].vmax = Some(NonNeg(SetMax(PixelsOf(i))))

\* C4: a call that repeats, on the same panels and with the list the previous call
\* filled, assigns every panel the vmin and vmax the previous call assigned
C4_RoundTrip ==
    (prev.valid /\ prev.entry = <<>> /\ args.mm = "caller") =>
        \A i \in Reached :
            /\ i <= Len(prev.scales)
            /\ scales[i].vmin = prev.scales[i].vmin
            /\ scales[i].vmax = prev.scales[i].vmax

\* the repeated call has returned, and one of its panels holds a negative value and
\* was given the list's range
C4_Witness ==
    /\ prev.valid /\ prev.entry = <<>> /\ args.mm = "caller"
    /\ result = "returned" /\ ~calc /\ ~args.align
    /\ Len(scales) = Len(args.panels)
    /\ \E i \in Reached : PlainScalar(i) /\ (\E v \in PixelsOf(i) : v < 0)
                            /\ scales[i].vmax # Some(0)

\* C5: a scalar panel with a center goes to the renderer with vmin = None,
\* vmax = None and the diverging colormap
C5_CenteredAuto ==
    \A i \in Reached :
        (Scalar(i) /\ args.centers[i] # None) =>
            scales[i] = [vmin |-> None, vmax |-> None, cmap |-> "coolwarm"]

\* a centered panel was rendered in an aligned call next to a panel without a center
C5_Witness ==
    \E i \in Reached :
        /\ Scalar(i) /\ args.centers[i] # None /\ args.align
        /\ scales[i].vmin = None
        /\ \E j \in Reached : PlainScalar(j) /\ scales[j].vmax # Some(0)

\* C6: a call given a range list whose length differs from the number of panels
\* renders no panel and does not return a figure
C6_LengthMismatchIsFatal ==
    (args.mm = "caller" /\ ~calc /\ Len(callerMM) # Len(args.panels)) =>
        /\ rendered = {}
        /\ result # "returned"

\* C7: a call with a panel of rank other than 2 or 3 raises, and never gets past the
\* first loop: no canvas, no drawn panel, no folder, no file
BadRanks == {i \in 1 .. Len(args.panels) : args.panels[i].ndim \notin {2, 3}}
C7_BadRankRaisesFirst ==
    BadRanks # {} =>
        /\ pc \in {"prepare", "idle"}
        /\ pc = "idle" => result = "raised"
        /\ fx = NoFx
        /\ rendered = {}
        /\ scales = <<>>

\* generate_final_imgs, asked to export into a named folder, raised on a rank-4
\* panel that stands after a valid panel
C7_Witness ==
    /\ BadRanks = {2}
    /\ args.fn = "final" /\ args.savefigs /\ args.figname # ""
    /\ result = "raised"
    /\ ~fx.canvas /\ ~fx.madeDir

\* C8: when the renderer raises on one scalar panel of a call that is otherwise in
\* order, the call returns and every other panel is in the composite
Degenerate == {i \in 1 .. Len(args.panels) : args.panels[i].degenerate}
InOrder ==
    /\ BadRanks = {}
    /\ Len(args.panels) > 1
    /\ Len(MM) = Len(args.panels)
    /\ ~args.savefigs
C8_OthersStillRendered ==
    (pc = "idle" /\ result # "none" /\ InOrder /\ Cardinality(Degenerate) = 1) =>
        /\ result = "returned"
        /\ \A j \in 1 .. Len(args.panels) : j \notin Degenerate => j \in rendered

\* C9: the export canvas (figure 2) is closed whenever the render loop is about to
\* take the next panel, has ended, or the call has returned
C9_ExportCanvasClosed ==
    (pc \in {"render", "finish"} \/ (pc = "idle" /\ result = "returned")) =>
        2 \notin openFigs

\* C10: generate_final_imgs with export off, repeating a generate_heatmap_fig call
\* on the same arguments, assigns the same scales and renders the same panels
C10_SameAsHeatmap ==
    (/\ prev.valid /\ prev.fn = "heatmap"
     /\ args.fn = "final" /\ ~args.savefigs /\ args.figname = ""
     /\ prev.entry = EntryList
     /\ result = "returned") =>
        /\ scales = prev.scales
        /\ rendered = prev.rendered
====
